---------------------------- MODULE Spec2Model ----------------------------
(***************************************************************************)
(* Material Design 3 theme provider.                                       *)
(*                                                                         *)
(*   - createMaterialTheme / getThemeTokens (src/src/theme-utils.ts, both  *)
(*     the role-direct and the tone-direct getThemeTokens) as operators,   *)
(*     exercised by the specification SpecPure;                            *)
(*   - MaterialThemeProvider (src/src/material-theme-provider.tsx) as a    *)
(*     state machine over React's render / passive-effect cycle, in Spec   *)
(*     and, with the scheduler's fairness, FairSpec;                       *)
(*   - useMaterialTheme and the context each provider module creates, in   *)
(*     SpecHook;                                                           *)
(*   - the two earlier provider modules (src/unnamed/part_000), whose      *)
(*     generation effect depends on the customColors array, next to the    *)
(*     current one, in SpecModules.                                        *)
(*                                                                         *)
(* The palette engine (@material/material-color-utilities) is external:    *)
(* its scheme constructors, role getters and tonal palettes are opaque     *)
(* deterministic functions, modelled by injective encodings of their       *)
(* arguments.  Its two string conversions, argbFromHex and hexFromArgb,    *)
(* are modelled digit by digit.                                            *)
(***************************************************************************)
EXTENDS Integers, Sequences, FiniteSets, TLC

VARIABLES
    \* ---- calls of the two pure functions (SpecPure)
    argv,            \* arguments of the createMaterialTheme call
    built,           \* its completion, NotCalled before the call
    projected,       \* completions of getThemeTokens calls on the built theme
    hook,            \* completion of a component's useMaterialTheme call (SpecHook)
    \* ---- MaterialThemeProvider (Spec, FairSpec)
    props,           \* props the parent passes now: isDark, variant
    rendered,        \* props as of the last render (what the effect closures see)
    sourceColor,     \* useState(defaultSourceColor), as of the last render
    materialTheme,   \* useState<MaterialTheme | null>(null), as of the last render
    currentScheme,   \* useState<DynamicScheme | null>(null), as of the last render
    updates,         \* state updates enqueued by setState calls since the last render
    pendingEffects,  \* passive effects scheduled by the last commit, in order
    style,           \* document.documentElement.style
    consoleErrors,   \* number of console.error calls
    uncaught,        \* an exception escaped an effect
    nextRef,         \* identity of the next object allocated
    inputs,          \* number of external inputs so far
    lastBuilt,       \* history: the last theme a createMaterialTheme call returned
    policy,          \* which getThemeTokens the provider is built with
    mounted          \* which provider module is mounted

pureVars == <<argv, built, projected, hook>>
providerVars == <<props, rendered, sourceColor, materialTheme, currentScheme, updates,
                  pendingEffects, style, consoleErrors, uncaught, nextRef, inputs,
                  lastBuilt, policy, mounted>>
vars == <<argv, built, projected, hook, props, rendered, sourceColor, materialTheme,
          currentScheme, updates, pendingEffects, style, consoleErrors, uncaught,
          nextRef, inputs, lastBuilt, policy, mounted>>

-----------------------------------------------------------------------------
(* Bounds of the model *)

\* longest customColors argument
MaxCustomColors == 2
\* external inputs (setSourceColor calls, prop changes) in one behaviour
MaxInputs == 2
\* objects (themes, customColors arrays) an earlier provider module allocates in
\* one behaviour
MaxObjects == 5

-----------------------------------------------------------------------------
(* JavaScript values *)

\* null
NULL == [null |-> TRUE]

\* An argument that may be left out: <<>> when omitted (undefined), <<v>> when given.
Omitted == <<>>
Given(v) == <<v>>
\* Default parameter value: used when the argument is undefined.
Default(arg, d) == IF arg = Omitted THEN d ELSE arg[1]

\* Completion of a call: normal with a value, or abrupt with an error.
Return(v) == [threw |-> "", value |-> v]
Throw(e) == [threw |-> e, value |-> NULL]

\* A JavaScript integer n, kept as floor(n / 2^24) and n mod 2^24, so that the
\* 32-bit ARGB values and the out-of-range seeds are all exact.
\* For an ARGB colour, hi is the alpha byte and lo the 24 RGB bits.
Number(hi, lo) == [hi |-> hi, lo |-> lo]
RgbModulus == 256 * 256 * 256

-----------------------------------------------------------------------------
(* Variant, src/src/types.ts *)

MONOCHROME == 0
NEUTRAL == 1
TONAL_SPOT == 2
VIBRANT == 3
EXPRESSIVE == 4
FIDELITY == 5
CONTENT == 6
RAINBOW == 7
FRUIT_SALAD == 8

Variant == {MONOCHROME, NEUTRAL, TONAL_SPOT, VIBRANT, EXPRESSIVE, FIDELITY, CONTENT,
            RAINBOW, FRUIT_SALAD}

-----------------------------------------------------------------------------
(* Palette engine: string conversions *)

\* A hex colour string is a sequence of characters: the hex digits by value
\* (0..15) and '#'.
HashChar == 16
HexDigits == 0..15

\* String.prototype.replace('#', ''): removes the first '#'.
RECURSIVE RemoveFirstHash(_)
RemoveFirstHash(s) ==
    IF s = <<>> THEN <<>>
    ELSE IF Head(s) = HashChar THEN Tail(s)
    ELSE <<Head(s)>> \o RemoveFirstHash(Tail(s))

\* parseInt(s, 16): the value of the longest prefix of hex digits, NaN (-1) if
\* that prefix is empty.
RECURSIVE ParseHexPrefix(_, _, _)
ParseHexPrefix(s, acc, seen) ==
    IF s = <<>> \/ Head(s) \notin HexDigits
    THEN IF seen THEN acc ELSE -1
    ELSE ParseHexPrefix(Tail(s), acc * 16 + Head(s), TRUE)
parseIntHex(s) == ParseHexPrefix(s, 0, FALSE)

\* x & 0x0ff, with NaN & 0xff = 0
LowByte(n) == IF n < 0 THEN 0 ELSE n % 256

\* argbFromHex(hex): '#rgb', '#rrggbb' or '#aarrggbb' to an opaque ARGB number;
\* throws on any other length.
argbFromHex(hex) ==
    LET h == RemoveFirstHash(hex)
        isThree == Len(h) = 3
        isSix == Len(h) = 6
        isEight == Len(h) = 8
        r == IF isThree THEN parseIntHex(<<h[1], h[1]>>)
             ELSE IF isSix THEN parseIntHex(SubSeq(h, 1, 2))
             ELSE parseIntHex(SubSeq(h, 3, 4))
        g == IF isThree THEN parseIntHex(<<h[2], h[2]>>)
             ELSE IF isSix THEN parseIntHex(SubSeq(h, 3, 4))
             ELSE parseIntHex(SubSeq(h, 5, 6))
        b == IF isThree THEN parseIntHex(<<h[3], h[3]>>)
             ELSE IF isSix THEN parseIntHex(SubSeq(h, 5, 6))
             ELSE parseIntHex(SubSeq(h, 7, 8))
    IN  IF ~isThree /\ ~isSix /\ ~isEight
        THEN Throw("unexpected hex")
        ELSE Return(Number(255, LowByte(r) * 65536 + LowByte(g) * 256 + LowByte(b)))

\* hexFromArgb(argb): '#' and the red, green and blue bytes as two hex digits
\* each; the alpha byte is dropped.
hexFromArgb(argb) ==
    LET r == (argb.lo \div 65536) % 256
        g == (argb.lo \div 256) % 256
        b == argb.lo % 256
    IN  <<HashChar, r \div 16, r % 16, g \div 16, g % 16, b \div 16, b % 16>>

-----------------------------------------------------------------------------
(* Palette engine: schemes, roles, tonal palettes, custom colours *)

\* Hct.fromInt(argb): the engine's perceptual value of a colour.  Only the RGB
\* bits of the number are read (argb >> 16 & 255, ...), not the alpha byte.
HctFromInt(argb) == [rgb |-> argb.lo]

\* new Scheme<Strategy>(sourceColorHct, isDark, contrastLevel)
NewScheme(strategy, sourceColorHct, isDark, contrastLevel) ==
    [strategy |-> strategy, sourceColorHct |-> sourceColorHct, isDark |-> isDark,
     contrastLevel |-> contrastLevel]

Strategies == <<"SchemeMonochrome", "SchemeNeutral", "SchemeTonalSpot", "SchemeVibrant",
                "SchemeExpressive", "SchemeFidelity", "SchemeContent", "SchemeRainbow",
                "SchemeFruitSalad">>

\* The roles a DynamicScheme exposes as getters, numbered, and its tonal palettes.
SchemeRoles ==
    [background |-> 1, error |-> 2, errorContainer |-> 3, inverseOnSurface |-> 4,
     inversePrimary |-> 5, inverseSurface |-> 6, onBackground |-> 7, onError |-> 8,
     onErrorContainer |-> 9, onPrimary |-> 10, onPrimaryContainer |-> 11, onPrimaryFixed |-> 12,
     onPrimaryFixedVariant |-> 13, onSecondary |-> 14, onSecondaryContainer |-> 15, onSecondaryFixed |-> 16,
     onSecondaryFixedVariant |-> 17, onSurface |-> 18, onSurfaceVariant |-> 19, onTertiary |-> 20,
     onTertiaryContainer |-> 21, onTertiaryFixed |-> 22, onTertiaryFixedVariant |-> 23, outline |-> 24,
     outlineVariant |-> 25, primary |-> 26, primaryContainer |-> 27, primaryFixed |-> 28,
     primaryFixedDim |-> 29, scrim |-> 30, secondary |-> 31, secondaryContainer |-> 32,
     secondaryFixed |-> 33, secondaryFixedDim |-> 34, shadow |-> 35, surface |-> 36,
     surfaceBright |-> 37, surfaceContainer |-> 38, surfaceContainerHigh |-> 39, surfaceContainerHighest |-> 40,
     surfaceContainerLow |-> 41, surfaceContainerLowest |-> 42, surfaceDim |-> 43, surfaceTint |-> 44,
     surfaceVariant |-> 45, tertiary |-> 46, tertiaryContainer |-> 47, tertiaryFixed |-> 48,
     tertiaryFixedDim |-> 49]
Palettes ==
    [primary |-> 1, secondary |-> 2, tertiary |-> 3, neutral |-> 4, neutralVariant |-> 5,
     error |-> 6]

\* The strategy of a variant's engine entry point, numbered.
StrategyNumber ==
    [SchemeMonochrome |-> 1, SchemeNeutral |-> 2, SchemeTonalSpot |-> 3,
     SchemeVibrant |-> 4, SchemeExpressive |-> 5, SchemeFidelity |-> 6,
     SchemeContent |-> 7, SchemeRainbow |-> 8, SchemeFruitSalad |-> 9]

\* What the engine's result depends on, folded into 13 bits: the strategy, the
\* mode, the contrast level and the source colour.
SourceCode(hct) ==
    (hct.rgb \div 65536 + 3 * ((hct.rgb \div 256) % 256) + 5 * (hct.rgb % 256)) % 32
SchemeCode(scheme) ==
    StrategyNumber[scheme.strategy] * 512
    + (IF scheme.isDark THEN 256 ELSE 0)
    + ((scheme.contrastLevel + 10) % 8) * 32
    + SourceCode(scheme.sourceColorHct)

\* scheme.<role>: the ARGB colour the engine assigns to a role of a scheme.
RoleArgb(scheme, role) ==
    Number(255, (SchemeRoles[role] * 8192 + SchemeCode(scheme)) % RgbModulus)

\* scheme.<palette>Palette.tone(t): the ARGB colour of a tone stop, 0..100, of one
\* of the scheme's tonal palettes.
ToneArgb(scheme, palette, tone) ==
    Number(255, ((128 + Palettes[palette] * 101 + tone) * 8192
                 + SchemeCode(scheme)) % RgbModulus)

\* Blend.harmonize(from, to): the design colour moved towards the source colour.
BlendHarmonize(from, to) == Number(255, (from.lo + to.lo) \div 2)

\* customColor(source, color): the CustomColorGroup of one custom colour.
customColor(source, color) ==
    LET value == IF color.blend THEN BlendHarmonize(color.value, source)
                 ELSE color.value
    IN  [color |-> color,
         value |-> value,
         light |-> [mode |-> "light", of |-> value.lo],
         dark |-> [mode |-> "dark", of |-> value.lo]]

-----------------------------------------------------------------------------
(* createMaterialTheme, src/src/theme-utils.ts *)

\* The light and dark scheme of one strategy.
SchemePair(strategy, source, contrastLevel) ==
    [light |-> NewScheme(strategy, HctFromInt(source), FALSE, contrastLevel),
     dark |-> NewScheme(strategy, HctFromInt(source), TRUE, contrastLevel)]

\* switch (variant) with a default: case that builds the provider's default
\* strategy.
SwitchVariantDefaultCase(variant, source, contrastLevel, initial) ==
    CASE variant = MONOCHROME -> SchemePair("SchemeMonochrome", source, contrastLevel)
      [] variant = NEUTRAL -> SchemePair("SchemeNeutral", source, contrastLevel)
      [] variant = TONAL_SPOT -> SchemePair("SchemeTonalSpot", source, contrastLevel)
      [] variant = VIBRANT -> SchemePair("SchemeVibrant", source, contrastLevel)
      [] variant = EXPRESSIVE -> SchemePair("SchemeExpressive", source, contrastLevel)
      [] variant = FIDELITY -> SchemePair("SchemeFidelity", source, contrastLevel)
      [] variant = CONTENT -> SchemePair("SchemeContent", source, contrastLevel)
      [] variant = RAINBOW -> SchemePair("SchemeRainbow", source, contrastLevel)
      [] variant = FRUIT_SALAD -> SchemePair("SchemeFruitSalad", source, contrastLevel)
      [] OTHER -> SchemePair("SchemeFidelity", source, contrastLevel)

\* switch (variant) with the CONTENT case a copy of the FIDELITY case.
SwitchVariantContentAsFidelity(variant, source, contrastLevel, initial) ==
    CASE variant = MONOCHROME -> SchemePair("SchemeMonochrome", source, contrastLevel)
      [] variant = NEUTRAL -> SchemePair("SchemeNeutral", source, contrastLevel)
      [] variant = TONAL_SPOT -> SchemePair("SchemeTonalSpot", source, contrastLevel)
      [] variant = VIBRANT -> SchemePair("SchemeVibrant", source, contrastLevel)
      [] variant = EXPRESSIVE -> SchemePair("SchemeExpressive", source, contrastLevel)
      [] variant = FIDELITY -> SchemePair("SchemeFidelity", source, contrastLevel)
      [] variant = CONTENT -> SchemePair("SchemeFidelity", source, contrastLevel)
      [] variant = RAINBOW -> SchemePair("SchemeRainbow", source, contrastLevel)
      [] variant = FRUIT_SALAD -> SchemePair("SchemeFruitSalad", source, contrastLevel)
      [] OTHER -> initial

\* switch (variant): the schemes after the switch, given the schemes before it.
SwitchVariant(variant, source, contrastLevel, initial) ==
    CASE variant = MONOCHROME -> SchemePair("SchemeMonochrome", source, contrastLevel)
      [] variant = NEUTRAL -> SchemePair("SchemeNeutral", source, contrastLevel)
      [] variant = TONAL_SPOT -> SchemePair("SchemeTonalSpot", source, contrastLevel)
      [] variant = VIBRANT -> SchemePair("SchemeVibrant", source, contrastLevel)
      [] variant = EXPRESSIVE -> SchemePair("SchemeExpressive", source, contrastLevel)
      [] variant = FIDELITY -> SchemePair("SchemeFidelity", source, contrastLevel)
      [] variant = CONTENT -> SchemePair("SchemeContent", source, contrastLevel)
      [] variant = RAINBOW -> SchemePair("SchemeRainbow", source, contrastLevel)
      [] variant = FRUIT_SALAD -> SchemePair("SchemeFruitSalad", source, contrastLevel)
      [] OTHER -> initial

\* customColors.map((c) => customColor(c.value, c)): each group derived against
\* its own colour instead of the theme's source.
CustomColorGroupsOwnValue(source, customColors) ==
    [i \in 1..Len(customColors) |-> customColor(customColors[i].value, customColors[i])]

\* customColors.map((c) => customColor(source, c))
CustomColorGroups(source, customColors) ==
    [i \in 1..Len(customColors) |-> customColor(source, customColors[i])]

\* The body of createMaterialTheme, all four parameters bound.
ThemeOf(source, variant, contrastLevel, customColors) ==
    LET initial == SchemePair("SchemeTonalSpot", source, contrastLevel)
        schemes == SwitchVariant(variant, source, contrastLevel, initial)
    IN  [source |-> source,
         variant |-> variant,
         schemes |-> [light |-> schemes.light, dark |-> schemes.dark],
         customColors |-> CustomColorGroups(source, customColors)]

\* createMaterialTheme with Variant.FIDELITY, the provider's default, as the
\* default variant.
createMaterialThemeFidelityDefault(source, variant, contrastLevel, customColors) ==
    Return(ThemeOf(source, Default(variant, FIDELITY), Default(contrastLevel, 0),
                   Default(customColors, <<>>)))

\* createMaterialTheme with a range check of the seed in front of the engine calls.
createMaterialThemeRangeChecked(source, variant, contrastLevel, customColors) ==
    IF source.hi # 0
    THEN Throw("InvalidColorError")
    ELSE Return(ThemeOf(source, Default(variant, TONAL_SPOT), Default(contrastLevel, 0),
                        Default(customColors, <<>>)))

\* createMaterialTheme(source, variant = Variant.TONAL_SPOT, contrastLevel = 0.0,
\*                     customColors = []); the last three may be omitted.
\* contrastLevel is in tenths.  No statement of the body throws.
createMaterialTheme(source, variant, contrastLevel, customColors) ==
    Return(ThemeOf(source, Default(variant, TONAL_SPOT), Default(contrastLevel, 0),
                   Default(customColors, <<>>)))

-----------------------------------------------------------------------------
(* getThemeTokens, src/src/theme-utils.ts *)

\* new Map(entries): the keys in the order of their first entry, each with the
\* value of its last entry (Map.prototype.set keeps the place of a present key).
NewMap(entries) ==
    LET e == entries \o <<>>
        n == Len(e)
        IsFirst(i) == \A j \in 1..(i - 1) : e[j][1] # e[i][1]
        firsts == SelectSeq([i \in 1..n |-> i], IsFirst)
        LastOf(key) ==
            LET at == {i \in 1..n : e[i][1] = key}
            IN  CHOOSE i \in at : \A j \in at : j <= i
    IN  IF Cardinality({e[i][1] : i \in 1..n}) = n
        THEN e
        ELSE [p \in 1..Len(firsts) |->
                <<e[firsts[p]][1], e[LastOf(e[firsts[p]][1])][2]>>]

MapKeys(m) == {m[i][1] : i \in 1..Len(m)}
MapHas(m, key) == \E i \in 1..Len(m) : m[i][1] = key
MapGet(m, key) == m[CHOOSE i \in 1..Len(m) : m[i][1] = key][2]

\* Role-direct getThemeTokens: token, role of the scheme.
RoleTable ==
  <<
     <<"--md-sys-color-background", "background">>,
     <<"--md-sys-color-error", "error">>,
     <<"--md-sys-color-error-container", "errorContainer">>,
     <<"--md-sys-color-inverse-on-surface", "inverseOnSurface">>,
     <<"--md-sys-color-inverse-primary", "inversePrimary">>,
     <<"--md-sys-color-inverse-surface", "inverseSurface">>,
     <<"--md-sys-color-on-background", "onBackground">>,
     <<"--md-sys-color-on-error", "onError">>,
     <<"--md-sys-color-on-error-container", "onErrorContainer">>,
     <<"--md-sys-color-on-primary", "onPrimary">>,
     <<"--md-sys-color-on-primary-container", "onPrimaryContainer">>,
     <<"--md-sys-color-on-primary-fixed", "onPrimaryFixed">>,
     <<"--md-sys-color-on-primary-fixed-variant", "onPrimaryFixedVariant">>,
     <<"--md-sys-color-on-secondary", "onSecondary">>,
     <<"--md-sys-color-on-secondary-container", "onSecondaryContainer">>,
     <<"--md-sys-color-on-secondary-fixed", "onSecondaryFixed">>,
     <<"--md-sys-color-on-secondary-fixed-variant", "onSecondaryFixedVariant">>,
     <<"--md-sys-color-on-surface", "onSurface">>,
     <<"--md-sys-color-on-surface-variant", "onSurfaceVariant">>,
     <<"--md-sys-color-on-tertiary", "onTertiary">>,
     <<"--md-sys-color-on-tertiary-container", "onTertiaryContainer">>,
     <<"--md-sys-color-on-tertiary-fixed", "onTertiaryFixed">>,
     <<"--md-sys-color-on-tertiary-fixed-variant", "onTertiaryFixedVariant">>,
     <<"--md-sys-color-outline", "outline">>,
     <<"--md-sys-color-outline-variant", "outlineVariant">>,
     <<"--md-sys-color-primary", "primary">>,
     <<"--md-sys-color-primary-container", "primaryContainer">>,
     <<"--md-sys-color-primary-fixed", "primaryFixed">>,
     <<"--md-sys-color-primary-fixed-dim", "primaryFixedDim">>,
     <<"--md-sys-color-scrim", "scrim">>,
     <<"--md-sys-color-secondary", "secondary">>,
     <<"--md-sys-color-secondary-container", "secondaryContainer">>,
     <<"--md-sys-color-secondary-fixed", "secondaryFixed">>,
     <<"--md-sys-color-secondary-fixed-dim", "secondaryFixedDim">>,
     <<"--md-sys-color-shadow", "shadow">>,
     <<"--md-sys-color-surface", "surface">>,
     <<"--md-sys-color-surface-bright", "surfaceBright">>,
     <<"--md-sys-color-surface-container", "surfaceContainer">>,
     <<"--md-sys-color-surface-container-high", "surfaceContainerHigh">>,
     <<"--md-sys-color-surface-container-highest", "surfaceContainerHighest">>,
     <<"--md-sys-color-surface-container-low", "surfaceContainerLow">>,
     <<"--md-sys-color-surface-container-lowest", "surfaceContainerLowest">>,
     <<"--md-sys-color-surface-dim", "surfaceDim">>,
     <<"--md-sys-color-surface-tint", "surfaceTint">>,
     <<"--md-sys-color-surface-variant", "surfaceVariant">>,
     <<"--md-sys-color-tertiary", "tertiary">>,
     <<"--md-sys-color-tertiary-container", "tertiaryContainer">>,
     <<"--md-sys-color-tertiary-fixed", "tertiaryFixed">>,
     <<"--md-sys-color-tertiary-fixed-dim", "tertiaryFixedDim">>
  >>

\* Tone-direct getThemeTokens: token, palette, tone stop of lightColors.
LightToneTable ==
  <<
     <<"--md-sys-color-background", "neutral", 98>>,
     <<"--md-sys-color-error", "error", 40>>,
     <<"--md-sys-color-error-container", "error", 90>>,
     <<"--md-sys-color-inverse-on-surface", "neutral", 95>>,
     <<"--md-sys-color-inverse-primary", "primary", 80>>,
     <<"--md-sys-color-inverse-surface", "neutral", 20>>,
     <<"--md-sys-color-on-background", "neutral", 10>>,
     <<"--md-sys-color-on-error", "error", 100>>,
     <<"--md-sys-color-on-error-container", "error", 10>>,
     <<"--md-sys-color-on-primary", "primary", 100>>,
     <<"--md-sys-color-on-primary-container", "primary", 10>>,
     <<"--md-sys-color-on-primary-fixed", "primary", 10>>,
     <<"--md-sys-color-on-primary-fixed-variant", "primary", 30>>,
     <<"--md-sys-color-on-secondary", "secondary", 100>>,
     <<"--md-sys-color-on-secondary-container", "secondary", 10>>,
     <<"--md-sys-color-on-secondary-fixed", "secondary", 10>>,
     <<"--md-sys-color-on-secondary-fixed-variant", "secondary", 30>>,
     <<"--md-sys-color-on-surface", "neutral", 10>>,
     <<"--md-sys-color-on-surface-variant", "neutralVariant", 30>>,
     <<"--md-sys-color-on-tertiary", "tertiary", 100>>,
     <<"--md-sys-color-on-tertiary-container", "tertiary", 10>>,
     <<"--md-sys-color-on-tertiary-fixed", "tertiary", 10>>,
     <<"--md-sys-color-on-tertiary-fixed-variant", "tertiary", 30>>,
     <<"--md-sys-color-outline", "neutralVariant", 50>>,
     <<"--md-sys-color-outline-variant", "neutralVariant", 80>>,
     <<"--md-sys-color-primary", "primary", 40>>,
     <<"--md-sys-color-primary-container", "primary", 90>>,
     <<"--md-sys-color-primary-fixed", "primary", 90>>,
     <<"--md-sys-color-primary-fixed-dim", "primary", 80>>,
     <<"--md-sys-color-scrim", "neutral", 0>>,
     <<"--md-sys-color-secondary", "secondary", 40>>,
     <<"--md-sys-color-secondary-container", "secondary", 90>>,
     <<"--md-sys-color-secondary-fixed", "secondary", 90>>,
     <<"--md-sys-color-secondary-fixed-dim", "secondary", 80>>,
     <<"--md-sys-color-shadow", "neutral", 0>>,
     <<"--md-sys-color-surface", "neutral", 98>>,
     <<"--md-sys-color-surface-bright", "neutral", 98>>,
     <<"--md-sys-color-surface-container", "neutral", 94>>,
     <<"--md-sys-color-surface-container-high", "neutral", 92>>,
     <<"--md-sys-color-surface-container-highest", "neutral", 90>>,
     <<"--md-sys-color-surface-container-low", "neutral", 96>>,
     <<"--md-sys-color-surface-container-lowest", "neutral", 100>>,
     <<"--md-sys-color-surface-dim", "neutral", 87>>,
     <<"--md-sys-color-surface-tint", "primary", 40>>,
     <<"--md-sys-color-surface-variant", "neutralVariant", 90>>,
     <<"--md-sys-color-tertiary", "tertiary", 40>>,
     <<"--md-sys-color-tertiary-container", "tertiary", 90>>,
     <<"--md-sys-color-tertiary-fixed", "tertiary", 90>>,
     <<"--md-sys-color-tertiary-fixed-dim", "tertiary", 80>>
  >>

\* Tone-direct getThemeTokens: token, palette, tone stop of darkColors.
DarkToneTable ==
  <<
     <<"--md-sys-color-background", "neutral", 6>>,
     <<"--md-sys-color-error", "error", 80>>,
     <<"--md-sys-color-error-container", "error", 30>>,
     <<"--md-sys-color-inverse-on-surface", "neutral", 20>>,
     <<"--md-sys-color-inverse-primary", "primary", 40>>,
     <<"--md-sys-color-inverse-surface", "neutral", 90>>,
     <<"--md-sys-color-on-background", "neutral", 90>>,
     <<"--md-sys-color-on-error", "error", 20>>,
     <<"--md-sys-color-on-error-container", "error", 90>>,
     <<"--md-sys-color-on-primary", "primary", 20>>,
     <<"--md-sys-color-on-primary-container", "primary", 90>>,
     <<"--md-sys-color-on-primary-fixed", "primary", 10>>,
     <<"--md-sys-color-on-primary-fixed-variant", "primary", 30>>,
     <<"--md-sys-color-on-secondary", "secondary", 20>>,
     <<"--md-sys-color-on-secondary-container", "secondary", 90>>,
     <<"--md-sys-color-on-secondary-fixed", "secondary", 10>>,
     <<"--md-sys-color-on-secondary-fixed-variant", "secondary", 30>>,
     <<"--md-sys-color-on-surface", "neutral", 90>>,
     <<"--md-sys-color-on-surface-variant", "neutralVariant", 80>>,
     <<"--md-sys-color-on-tertiary", "tertiary", 20>>,
     <<"--md-sys-color-on-tertiary-container", "tertiary", 90>>,
     <<"--md-sys-color-on-tertiary-fixed", "tertiary", 10>>,
     <<"--md-sys-color-on-tertiary-fixed-variant", "tertiary", 30>>,
     <<"--md-sys-color-outline", "neutralVariant", 60>>,
     <<"--md-sys-color-outline-variant", "neutralVariant", 30>>,
     <<"--md-sys-color-primary", "primary", 80>>,
     <<"--md-sys-color-primary-container", "primary", 30>>,
     <<"--md-sys-color-primary-fixed", "primary", 90>>,
     <<"--md-sys-color-primary-fixed-dim", "primary", 80>>,
     <<"--md-sys-color-scrim", "neutral", 0>>,
     <<"--md-sys-color-secondary", "secondary", 80>>,
     <<"--md-sys-color-secondary-container", "secondary", 30>>,
     <<"--md-sys-color-secondary-fixed", "secondary", 90>>,
     <<"--md-sys-color-secondary-fixed-dim", "secondary", 80>>,
     <<"--md-sys-color-shadow", "neutral", 0>>,
     <<"--md-sys-color-surface", "neutral", 6>>,
     <<"--md-sys-color-surface-bright", "neutral", 24>>,
     <<"--md-sys-color-surface-container", "neutral", 12>>,
     <<"--md-sys-color-surface-container-high", "neutral", 17>>,
     <<"--md-sys-color-surface-container-highest", "neutral", 22>>,
     <<"--md-sys-color-surface-container-low", "neutral", 10>>,
     <<"--md-sys-color-surface-container-lowest", "neutral", 4>>,
     <<"--md-sys-color-surface-dim", "neutral", 6>>,
     <<"--md-sys-color-surface-tint", "primary", 80>>,
     <<"--md-sys-color-surface-variant", "neutralVariant", 30>>,
     <<"--md-sys-color-tertiary", "tertiary", 80>>,
     <<"--md-sys-color-tertiary-container", "tertiary", 30>>,
     <<"--md-sys-color-tertiary-fixed", "tertiary", 90>>,
     <<"--md-sys-color-tertiary-fixed-dim", "tertiary", 80>>
  >>

\* The role table with its last line lost.
RoleEntriesDropLast(scheme) ==
    [i \in 1..(Len(RoleTable) - 1) |->
        <<RoleTable[i][1], hexFromArgb(RoleArgb(scheme, RoleTable[i][2]))>>]

\* The entries of the role-direct map, in source order.
RoleEntries(scheme) ==
    [i \in 1..Len(RoleTable) |->
        <<RoleTable[i][1], hexFromArgb(RoleArgb(scheme, RoleTable[i][2]))>>]

\* The entries of the light tone table, whatever table is asked for.
ToneEntriesLightTable(scheme, table) ==
    [i \in 1..Len(LightToneTable) |->
        <<LightToneTable[i][1],
          hexFromArgb(ToneArgb(scheme, LightToneTable[i][2], LightToneTable[i][3]))>>]

\* The entries of a tone table with the first one left out.
ToneEntriesDropFirst(scheme, table) ==
    [i \in 1..(Len(table) - 1) |->
        <<table[i + 1][1], hexFromArgb(ToneArgb(scheme, table[i + 1][2], table[i + 1][3]))>>]

\* The entries of lightColors or darkColors, in source order.
ToneEntries(scheme, table) ==
    [i \in 1..Len(table) |->
        <<table[i][1], hexFromArgb(ToneArgb(scheme, table[i][2], table[i][3]))>>]

\* getThemeTokens reading the light scheme in either mode.
getThemeTokensRoleDirectLightOnly(theme, isDark) ==
    NewMap(RoleEntries(theme.schemes.light))

\* getThemeTokens(theme, isDark), role-direct.
getThemeTokensRoleDirect(theme, isDark) ==
    LET scheme == IF isDark THEN theme.schemes.dark ELSE theme.schemes.light
    IN  NewMap(RoleEntries(scheme))

\* The merge with the spread order swapped: [...darkColors, ...lightColors].
MergedEntriesLightLast(lightColors, darkColors) == darkColors \o lightColors

\* The entries the tone-direct getThemeTokens hands to new Map in dark mode:
\* [...lightColors.entries(), ...darkColors.entries()].
MergedEntries(lightColors, darkColors) == lightColors \o darkColors

\* getThemeTokens(theme, isDark), tone-direct.
getThemeTokensToneDirect(theme, isDark) ==
    LET scheme == IF isDark THEN theme.schemes.dark ELSE theme.schemes.light
        lightColors == NewMap(ToneEntries(scheme, LightToneTable))
        darkColors == NewMap(ToneEntries(scheme, DarkToneTable))
    IN  IF ~isDark THEN lightColors
        ELSE NewMap(MergedEntries(lightColors, darkColors))

Policies == {"role-direct", "tone-direct"}

\* The getThemeTokens of the theme-utils the program is built with.
getThemeTokens(which, theme, isDark) ==
    IF which = "role-direct" THEN getThemeTokensRoleDirect(theme, isDark)
    ELSE getThemeTokensToneDirect(theme, isDark)

-----------------------------------------------------------------------------
(* Calls of createMaterialTheme and getThemeTokens: SpecPure *)

NotCalled == [notCalled |-> TRUE]

\* Seeds: -1, 0x006494, 0x1000000, and the ARGB values of '#006494' and '#ff0000'.
Seeds ==
    {Number(-1, RgbModulus - 1), Number(0, \h006494), Number(1, 0),
     Number(255, \h006494), Number(255, \hFF0000)}

\* Values that are no member of the Variant enum.
UnrecognizedVariants == {-1, 9, 42}

\* contrastLevel, in tenths
ContrastLevels == {-10, 5, 10}

CustomColorPool ==
    {[name |-> "brand", value |-> Number(255, \hFF0000), blend |-> TRUE],
     [name |-> "custom-1", value |-> Number(255, \h00FF00), blend |-> FALSE]}

SeqsUpTo(S, n) == UNION {[1..k -> S] : k \in 0..n}

VariantArgs == {Omitted} \cup {Given(v) : v \in Variant \cup UnrecognizedVariants}
ContrastArgs == {Omitted} \cup {Given(c) : c \in ContrastLevels}
CustomColorArgs ==
    {Omitted} \cup {Given(l) : l \in SeqsUpTo(CustomColorPool, MaxCustomColors)}

\* The provider's variables while only the pure functions are exercised.
ProviderIdle ==
    /\ props = [isDark |-> FALSE, variant |-> FIDELITY]
    /\ rendered = props
    /\ sourceColor = <<>>
    /\ materialTheme = NULL
    /\ currentScheme = NULL
    /\ updates = [sourceColor |-> <<>>, materialTheme |-> <<>>, currentScheme |-> <<>>]
    /\ pendingEffects = <<>>
    /\ style = <<>>
    /\ consoleErrors = 0
    /\ uncaught = FALSE
    /\ nextRef = 1
    /\ inputs = 0
    /\ lastBuilt = NULL
    /\ policy = "role-direct"
    /\ mounted = "variant-prop"

InitPure ==
    /\ argv \in [source : Seeds, variant : VariantArgs, contrastLevel : ContrastArgs,
                 customColors : CustomColorArgs]
    /\ built = NotCalled
    /\ projected = NotCalled
    /\ hook = NotCalled
    /\ ProviderIdle

\* const theme = createMaterialTheme(source, variant, contrastLevel, customColors)
CallCreateMaterialTheme ==
    /\ built = NotCalled
    /\ built' = createMaterialTheme(argv.source, argv.variant, argv.contrastLevel,
                                    argv.customColors)
    /\ UNCHANGED <<argv, projected, hook>>
    /\ UNCHANGED providerVars

\* const tokens = getThemeTokens(theme, isDark), with either theme-utils
CallGetThemeTokens(which, isDark) ==
    /\ built # NotCalled
    /\ built.threw = ""
    /\ projected = NotCalled
    /\ projected' = [policy |-> which, isDark |-> isDark,
                     tokens |-> getThemeTokens(which, built.value, isDark)]
    /\ UNCHANGED <<argv, built, hook>>
    /\ UNCHANGED providerVars

NextPure ==
    \/ CallCreateMaterialTheme
    \/ \E which \in Policies, isDark \in BOOLEAN : CallGetThemeTokens(which, isDark)

SpecPure == InitPure /\ [][NextPure]_vars

-----------------------------------------------------------------------------
(* MaterialThemeProvider, src/src/material-theme-provider.tsx *)

\* Colour strings given to the provider: '#6D509F' (the default of the prop),
\* '#006494', '#ff0000', '#f00', and '#6D509', which argbFromHex rejects.
ColorDefault == <<HashChar, 6, 13, 5, 0, 9, 15>>
Color006494 == <<HashChar, 0, 0, 6, 4, 9, 4>>
ColorFF0000 == <<HashChar, 15, 15, 0, 0, 0, 0>>
ColorF00 == <<HashChar, 15, 0, 0>>
ColorTruncated == <<HashChar, 6, 13, 5, 0, 9>>

\* defaultSourceColor props, and arguments of setSourceColor
DefaultSourceColors == {ColorDefault, Color006494, ColorTruncated}
SourceColors == {Color006494, ColorFF0000, ColorF00, ColorTruncated}

\* variant props
ProviderVariants == {FIDELITY, VIBRANT}

\* A property the document root carries that is no theme token.
InitialStyle == << <<"--app-accent", <<HashChar, 1, 2, 3>>>> >>

NoUpdates == [sourceColor |-> <<>>, materialTheme |-> <<>>, currentScheme |-> <<>>]

\* An object with its identity: two objects are the same object (Object.is) iff
\* their refs are equal.
Object(ref, val) == [ref |-> ref, val |-> val]

\* A setter that keeps the update already enqueued and drops the later one.
SetStateKeepFirst(current, queued, value) ==
    IF queued # <<>> THEN queued
    ELSE IF value = current THEN <<>> ELSE <<value>>

\* The setter of a useState hook, called with a plain value: the update is
\* enqueued, unless nothing is enqueued and the value is the current state
\* (Object.is), in which case React schedules nothing.
SetState(current, queued, value) ==
    IF queued = <<>> /\ value = current THEN <<>> ELSE <<value>>

\* The state a hook has in a render: the last enqueued value, if any.
StateInRender(current, queued) == IF queued = <<>> THEN current ELSE queued[Len(queued)]

\* The pure-function variables while the provider runs.
PureIdle ==
    /\ argv = NotCalled
    /\ built = NotCalled
    /\ projected = NotCalled
    /\ hook = NotCalled

\* The provider after its first render: the hooks hold their initial values and
\* both effects are scheduled.
Init ==
    /\ PureIdle
    /\ props \in [isDark : BOOLEAN, variant : ProviderVariants]
    /\ rendered = props
    /\ sourceColor \in DefaultSourceColors
    /\ materialTheme = NULL
    /\ currentScheme = NULL
    /\ updates = NoUpdates
    /\ pendingEffects = <<"generate", "scheme">>
    /\ style = InitialStyle
    /\ consoleErrors = 0
    /\ uncaught = FALSE
    /\ nextRef = 1
    /\ inputs = 0
    /\ lastBuilt = NULL
    /\ policy \in Policies
    /\ mounted = "variant-prop"

\* A consumer calls setSourceColor(color), the setter of the sourceColor hook.
SetSourceColor(color) ==
    /\ inputs < MaxInputs
    /\ inputs' = inputs + 1
    /\ updates' = [updates EXCEPT
                     !.sourceColor = SetState(sourceColor, updates.sourceColor, color)]
    /\ UNCHANGED <<props, rendered, sourceColor, materialTheme, currentScheme,
                   pendingEffects, style, consoleErrors, uncaught, nextRef, lastBuilt,
                   policy, mounted>>
    /\ UNCHANGED pureVars

\* The parent passes the other value of isDark.
ChangeIsDark ==
    /\ inputs < MaxInputs
    /\ inputs' = inputs + 1
    /\ props' = [props EXCEPT !.isDark = ~props.isDark]
    /\ UNCHANGED <<rendered, sourceColor, materialTheme, currentScheme, updates,
                   pendingEffects, style, consoleErrors, uncaught, nextRef, lastBuilt,
                   policy, mounted>>
    /\ UNCHANGED pureVars

\* The parent passes another variant.
ChangeVariant(variant) ==
    /\ inputs < MaxInputs
    /\ variant # props.variant
    /\ inputs' = inputs + 1
    /\ props' = [props EXCEPT !.variant = variant]
    /\ UNCHANGED <<rendered, sourceColor, materialTheme, currentScheme, updates,
                   pendingEffects, style, consoleErrors, uncaught, nextRef, lastBuilt,
                   policy, mounted>>
    /\ UNCHANGED pureVars

\* The effects of a commit with materialTheme left out of the dependencies of
\* the scheme and token effect.
EffectsToRunIsDarkOnly(old, new) ==
    (IF old.sourceColor # new.sourceColor \/ old.variant # new.variant
     THEN <<"generate">> ELSE <<>>)
    \o
    (IF old.isDark # new.isDark THEN <<"scheme">> ELSE <<>>)

\* The effects of a commit with isDark left out of the dependencies of the scheme
\* and token effect.
EffectsToRunThemeOnly(old, new) ==
    (IF old.sourceColor # new.sourceColor \/ old.variant # new.variant
     THEN <<"generate">> ELSE <<>>)
    \o
    (IF old.materialTheme # new.materialTheme THEN <<"scheme">> ELSE <<>>)

\* The effects of a commit with variant left out of the dependencies of the theme
\* generation effect.
EffectsToRunSourceColorOnly(old, new) ==
    (IF old.sourceColor # new.sourceColor THEN <<"generate">> ELSE <<>>)
    \o
    (IF old.materialTheme # new.materialTheme \/ old.isDark # new.isDark
     THEN <<"scheme">> ELSE <<>>)

\* The effects of a commit with the scheme and token effect given no dependency
\* array: it runs after every render.
EffectsToRunSchemeEveryRender(old, new) ==
    (IF old.sourceColor # new.sourceColor \/ old.variant # new.variant
     THEN <<"generate">> ELSE <<>>)
    \o
    <<"scheme">>

\* The effects a commit schedules: those with a changed dependency (Object.is),
\* in the order of their useEffect calls.  [sourceColor, variant] for the theme
\* generation effect, [materialTheme, isDark] for the scheme and token effect.
EffectsToRun(old, new) ==
    (IF old.sourceColor # new.sourceColor \/ old.variant # new.variant
     THEN <<"generate">> ELSE <<>>)
    \o
    (IF old.materialTheme # new.materialTheme \/ old.isDark # new.isDark
     THEN <<"scheme">> ELSE <<>>)

\* React renders the provider with the enqueued state and the current props and
\* commits; the passive effects of the previous commit have all run.
Render ==
    /\ pendingEffects = <<>>
    /\ updates # NoUpdates \/ props # rendered
    /\ sourceColor' = StateInRender(sourceColor, updates.sourceColor)
    /\ materialTheme' = StateInRender(materialTheme, updates.materialTheme)
    /\ currentScheme' = StateInRender(currentScheme, updates.currentScheme)
    /\ rendered' = props
    /\ updates' = NoUpdates
    /\ pendingEffects' =
         EffectsToRun([sourceColor |-> sourceColor, variant |-> rendered.variant,
                       materialTheme |-> materialTheme, isDark |-> rendered.isDark],
                      [sourceColor |-> sourceColor', variant |-> props.variant,
                       materialTheme |-> materialTheme', isDark |-> props.isDark])
    /\ UNCHANGED <<props, style, consoleErrors, uncaught, nextRef, inputs, lastBuilt,
                   policy, mounted>>
    /\ UNCHANGED pureVars

\* The theme generation effect without its try/catch: a failure escapes.
GenerateThemeUncaught(color, variant) ==
    LET argbColor == argbFromHex(color)
        theme == IF argbColor.threw = ""
                 THEN createMaterialTheme(argbColor.value, Given(variant), Given(0), Omitted)
                 ELSE argbColor
    IN  IF theme.threw = ""
        THEN [setMaterialTheme |-> <<theme.value>>, logged |-> FALSE, escaped |-> FALSE]
        ELSE [setMaterialTheme |-> <<>>, logged |-> FALSE, escaped |-> TRUE]

\* The theme generation effect with a catch block that clears the theme.
GenerateThemeClearing(color, variant) ==
    LET argbColor == argbFromHex(color)
        theme == IF argbColor.threw = ""
                 THEN createMaterialTheme(argbColor.value, Given(variant), Given(0), Omitted)
                 ELSE argbColor
    IN  IF theme.threw = ""
        THEN [setMaterialTheme |-> <<theme.value>>, logged |-> FALSE, escaped |-> FALSE]
        ELSE [setMaterialTheme |-> <<NULL>>, logged |-> TRUE, escaped |-> FALSE]

\* The theme generation effect handing on a theme whose variant field is not
\* the variant it was built with.
GenerateThemeStaleVariant(color, variant) ==
    LET argbColor == argbFromHex(color)
        theme == IF argbColor.threw = ""
                 THEN createMaterialTheme(argbColor.value, Given(variant), Given(0), Omitted)
                 ELSE argbColor
    IN  IF theme.threw = ""
        THEN [setMaterialTheme |-> <<[theme.value EXCEPT !.variant = FIDELITY]>>,
              logged |-> FALSE, escaped |-> FALSE]
        ELSE [setMaterialTheme |-> <<>>, logged |-> TRUE, escaped |-> FALSE]

\* The body of the theme generation effect:
\*   try { argbColor = argbFromHex(sourceColor);
\*         theme = createMaterialTheme(argbColor, variant, 0.0);
\*         setMaterialTheme(theme) }
\*   catch (error) { console.error(...) }
\* setMaterialTheme: the value the setter is called with, if it is called.
GenerateTheme(color, variant) ==
    LET argbColor == argbFromHex(color)
        theme == IF argbColor.threw = ""
                 THEN createMaterialTheme(argbColor.value, Given(variant), Given(0), Omitted)
                 ELSE argbColor
    IN  IF theme.threw = ""
        THEN [setMaterialTheme |-> <<theme.value>>, logged |-> FALSE, escaped |-> FALSE]
        ELSE [setMaterialTheme |-> <<>>, logged |-> TRUE, escaped |-> FALSE]

\* The theme generation effect runs, with the sourceColor and variant of its render.
EffectGenerateTheme ==
    /\ pendingEffects # <<>>
    /\ Head(pendingEffects) = "generate"
    /\ pendingEffects' = Tail(pendingEffects)
    /\ LET done == GenerateTheme(sourceColor, rendered.variant)
           set == done.setMaterialTheme
           theme == IF set = <<>> \/ set = <<NULL>> THEN NULL ELSE Object(nextRef, set[1])
       IN  /\ updates' = [updates EXCEPT
                            !.materialTheme =
                                IF set = <<>> THEN @
                                ELSE SetState(materialTheme, @, theme)]
           /\ nextRef' = IF theme = NULL THEN nextRef ELSE nextRef + 1
           /\ lastBuilt' = IF theme = NULL THEN lastBuilt ELSE theme
           /\ consoleErrors' = IF done.logged THEN consoleErrors + 1 ELSE consoleErrors
           /\ uncaught' = (uncaught \/ done.escaped)
    /\ UNCHANGED <<props, rendered, sourceColor, materialTheme, currentScheme, style,
                   inputs, policy, mounted>>
    /\ UNCHANGED pureVars

\* A publish that assigns the token map as the whole declaration.
SetPropertiesReplacing(declaration, tokens) == tokens

\* tokens.forEach((value, key) => style.setProperty(key, value)): a present
\* property takes the new value, a new one is added; none is removed.
SetProperties(declaration, tokens) == NewMap(declaration \o tokens)

\* The scheme of a held theme for a mode, the object theme.schemes.dark or
\* theme.schemes.light.
SchemeObject(theme, isDark) ==
    IF isDark THEN Object(<<theme.ref, "dark">>, theme.val.schemes.dark)
    ELSE Object(<<theme.ref, "light">>, theme.val.schemes.light)

\* The scheme and token effect runs, with the materialTheme and isDark of its
\* render: if (!materialTheme) return; setCurrentScheme(scheme); apply tokens.
EffectSchemeTokens ==
    /\ pendingEffects # <<>>
    /\ Head(pendingEffects) = "scheme"
    /\ pendingEffects' = Tail(pendingEffects)
    /\ IF materialTheme = NULL
       THEN UNCHANGED <<updates, style>>
       ELSE /\ updates' = [updates EXCEPT
                             !.currentScheme =
                                 SetState(currentScheme, @,
                                          SchemeObject(materialTheme, rendered.isDark))]
            /\ style' = SetProperties(style, getThemeTokens(policy, materialTheme.val,
                                                            rendered.isDark))
    /\ UNCHANGED <<props, rendered, sourceColor, materialTheme, currentScheme,
                   consoleErrors, uncaught, nextRef, inputs, lastBuilt, policy, mounted>>
    /\ UNCHANGED pureVars

Next ==
    \/ \E color \in SourceColors : SetSourceColor(color)
    \/ ChangeIsDark
    \/ \E variant \in ProviderVariants : ChangeVariant(variant)
    \/ Render
    \/ EffectGenerateTheme
    \/ EffectSchemeTokens

Spec == Init /\ [][Next]_vars

\* A passive effect of the last commit runs.  The steps of Spec that take the head
\* off pendingEffects are those of EffectGenerateTheme and EffectSchemeTokens, one
\* of which is enabled whenever an effect is pending.
FlushPassiveEffect ==
    /\ pendingEffects # <<>>
    /\ pendingEffects' = Tail(pendingEffects)

\* React runs every render it has scheduled and every effect a commit scheduled.
FairSpec ==
    /\ Spec
    /\ WF_vars(Render)
    /\ WF_pendingEffects(FlushPassiveEffect)

\* Nothing is scheduled: no effect, no state update, no new props.
Quiescent == pendingEffects = <<>> /\ updates = NoUpdates /\ props = rendered

-----------------------------------------------------------------------------
(* useMaterialTheme and MaterialThemeContext: SpecHook *)

\* The provider modules: src/src/material-theme-provider.tsx, which takes a variant
\* prop, and the two of src/unnamed/part_000, the one with three effects and the
\* one that derives the scheme during render.
ProviderModules == {"variant-prop", "three-effects", "derived-scheme"}

Undefined == [undefined |-> TRUE]

\* The default value each module passes to createContext.
createContextDefault(module) ==
    IF module = "variant-prop"
    THEN Undefined
    ELSE [materialTheme |-> NULL, setSourceColor |-> "() => {}", currentScheme |-> NULL]

\* value={{ materialTheme, setSourceColor, currentScheme }} of the last render
ProviderValue ==
    [materialTheme |-> materialTheme, setSourceColor |-> "setSourceColor",
     currentScheme |-> currentScheme]

\* useContext(MaterialThemeContext) in a component with or without a
\* MaterialThemeContext.Provider above it: the value of the nearest provider, or
\* the default value the context was created with.
useContext(module, underProvider) ==
    IF underProvider THEN ProviderValue ELSE createContextDefault(module)

HookError == "useMaterialTheme must be used within a MaterialThemeProvider"

\* useMaterialTheme()
useMaterialTheme(module, underProvider) ==
    LET context == useContext(module, underProvider)
    IN  IF context = Undefined THEN Throw(HookError) ELSE Return(context)

\* The provider mounted with defaultSourceColor = color and the given isDark, the
\* other props at their defaults (or a stable customColors array where the module
\* reads it), after its effects and renders: every module holds the FIDELITY theme
\* of the colour, or nothing if the colour is rejected.
Settled(color, isDark) ==
    LET done == GenerateTheme(color, FIDELITY)
        theme == IF done.setMaterialTheme = <<>>
                 THEN NULL
                 ELSE Object(1, done.setMaterialTheme[1])
    IN  /\ props = [isDark |-> isDark, variant |-> FIDELITY]
        /\ rendered = props
        /\ sourceColor = color
        /\ materialTheme = theme
        /\ currentScheme = IF theme = NULL THEN NULL ELSE SchemeObject(theme, isDark)
        /\ updates = NoUpdates
        /\ pendingEffects = <<>>
        /\ style = IF theme = NULL
                   THEN InitialStyle
                   ELSE SetProperties(InitialStyle,
                                      getThemeTokens(policy, theme.val, isDark))
        /\ consoleErrors = IF done.logged THEN 1 ELSE 0
        /\ uncaught = FALSE
        /\ nextRef = IF theme = NULL THEN 1 ELSE 2
        /\ inputs = 0
        /\ lastBuilt = theme

InitHook ==
    /\ PureIdle
    /\ policy \in Policies
    /\ mounted \in ProviderModules
    /\ \E color \in DefaultSourceColors \cup SourceColors, isDark \in BOOLEAN :
           Settled(color, isDark)

\* A component of the mounted module calls useMaterialTheme(), under the provider
\* or with no provider above it.
CallUseMaterialTheme(module, underProvider) ==
    /\ hook = NotCalled
    /\ module = mounted
    /\ hook' = [module |-> module, underProvider |-> underProvider,
                completion |-> useMaterialTheme(module, underProvider)]
    /\ UNCHANGED <<argv, built, projected>>
    /\ UNCHANGED providerVars

NextHook ==
    \E module \in ProviderModules, underProvider \in BOOLEAN :
        CallUseMaterialTheme(module, underProvider)

SpecHook == InitHook /\ [][NextHook]_vars

-----------------------------------------------------------------------------
(* MaterialThemeProvider with its customColors prop: SpecCustom *)

\* customColors props: the prop omitted (the default, []), and one definition.
CustomColorProps ==
    {<<>>, <<[name |-> "brand", value |-> ColorFF0000, blend |-> TRUE]>>}

\* The provider after its first render, the customColors prop among its props.
\* The prop is destructured and never read.
InitCustom ==
    /\ PureIdle
    /\ props \in [isDark : BOOLEAN, variant : ProviderVariants,
                  customColors : CustomColorProps]
    /\ rendered = props
    /\ sourceColor \in DefaultSourceColors
    /\ materialTheme = NULL
    /\ currentScheme = NULL
    /\ updates = NoUpdates
    /\ pendingEffects = <<"generate", "scheme">>
    /\ style = InitialStyle
    /\ consoleErrors = 0
    /\ uncaught = FALSE
    /\ nextRef = 1
    /\ inputs = 0
    /\ lastBuilt = NULL
    /\ policy \in Policies
    /\ mounted = "variant-prop"

\* The parent passes another customColors list.
ChangeCustomColors(customColors) ==
    /\ inputs < MaxInputs
    /\ customColors # props.customColors
    /\ inputs' = inputs + 1
    /\ props' = [props EXCEPT !.customColors = customColors]
    /\ UNCHANGED <<rendered, sourceColor, materialTheme, currentScheme, updates,
                   pendingEffects, style, consoleErrors, uncaught, nextRef, lastBuilt,
                   policy, mounted>>
    /\ UNCHANGED pureVars

NextCustom ==
    \/ Next
    \/ \E customColors \in CustomColorProps : ChangeCustomColors(customColors)

SpecCustom == InitCustom /\ [][NextCustom]_vars

-----------------------------------------------------------------------------
(* MaterialThemeProvider of src/unnamed/part_000, both modules: SpecModules *)

\* The modules whose generation effect depends on [sourceColor, customColors] and
\* builds with Variant.FIDELITY: the one with three effects (currentScheme is
\* state) and the one that derives the scheme during render.
EarlierModules == {"three-effects", "derived-scheme"}

\* The customColors prop at mount: omitted, or a non-empty array the parent created
\* (object 0).
CustomColorsAtMount ==
    {Undefined} \cup {Object(0, list) : list \in CustomColorProps \ {<<>>}}

\* defaultSourceColor props of the earlier modules: '#006494', and '#6D509', which
\* argbFromHex rejects.
EarlierDefaultSourceColors == {Color006494, ColorTruncated}

\* customColors = [] in the parameter list: the array passed, or, when the prop is
\* omitted, a new empty array made by this call of the component.
DestructureCustomColors(passed, ref) ==
    IF passed = Undefined THEN Object(ref, <<>>) ELSE passed

\* The passive effects of a module, in the order of their useEffect calls.
EffectsOf(module) ==
    IF module = "three-effects" THEN <<"generate", "scheme", "tokens">>
    ELSE <<"generate", "tokens">>

\* getCurrentScheme() without its isDark test: the light scheme in both modes.
getCurrentSchemeLightOnly(theme, isDark) ==
    IF theme = NULL THEN NULL ELSE SchemeObject(theme, FALSE)

\* getCurrentScheme(), called while rendering the context value.
getCurrentScheme(theme, isDark) ==
    IF theme = NULL THEN NULL ELSE SchemeObject(theme, isDark)

\* An earlier module after its first render, mounted with isDark at its default
\* (false): every effect is scheduled.  The parent's array, if any, is object 0 and
\* the default array of the first render object 1.
InitEarlier ==
    /\ PureIdle
    /\ mounted \in EarlierModules
    /\ props \in [isDark : {FALSE}, customColors : CustomColorsAtMount]
    /\ rendered = [isDark |-> props.isDark, passed |-> props.customColors,
                   customColors |-> DestructureCustomColors(props.customColors, 1)]
    /\ sourceColor \in EarlierDefaultSourceColors
    /\ materialTheme = NULL
    /\ currentScheme = NULL
    /\ updates = NoUpdates
    /\ pendingEffects = EffectsOf(mounted)
    /\ style = InitialStyle
    /\ consoleErrors = 0
    /\ uncaught = FALSE
    /\ nextRef = 2
    /\ inputs = 0
    /\ lastBuilt = NULL
    /\ policy \in Policies

\* The parent renders and passes a customColors array it has just created.
PassCustomColors(list) ==
    /\ mounted \in EarlierModules
    /\ inputs < MaxInputs
    /\ nextRef <= MaxObjects
    /\ inputs' = inputs + 1
    /\ props' = [props EXCEPT !.customColors = Object(nextRef, list)]
    /\ nextRef' = nextRef + 1
    /\ UNCHANGED <<rendered, sourceColor, materialTheme, currentScheme, updates,
                   pendingEffects, style, consoleErrors, uncaught, lastBuilt, policy,
                   mounted>>
    /\ UNCHANGED pureVars

\* The effects a commit of an earlier module schedules: [sourceColor, customColors]
\* for the generation effect, [materialTheme, isDark] for the others; an array is
\* compared by identity.
EffectsToRunEarlier(module, old, new) ==
    LET themeOrMode == old.materialTheme # new.materialTheme \/ old.isDark # new.isDark
    IN  (IF old.sourceColor # new.sourceColor \/ old.customColors # new.customColors
         THEN <<"generate">> ELSE <<>>)
        \o
        (IF module = "three-effects" /\ themeOrMode THEN <<"scheme">> ELSE <<>>)
        \o
        (IF themeOrMode THEN <<"tokens">> ELSE <<>>)

\* React renders an earlier module with the enqueued state and the current props
\* and commits.
RenderEarlier ==
    /\ mounted \in EarlierModules
    /\ pendingEffects = <<>>
    /\ \/ updates # NoUpdates
       \/ props.isDark # rendered.isDark
       \/ props.customColors # rendered.passed
    /\ props.customColors = Undefined => nextRef <= MaxObjects
    /\ sourceColor' = StateInRender(sourceColor, updates.sourceColor)
    /\ materialTheme' = StateInRender(materialTheme, updates.materialTheme)
    /\ currentScheme' =
         IF mounted = "derived-scheme"
         THEN getCurrentScheme(materialTheme', props.isDark)
         ELSE StateInRender(currentScheme, updates.currentScheme)
    /\ rendered' = [isDark |-> props.isDark, passed |-> props.customColors,
                    customColors |-> DestructureCustomColors(props.customColors, nextRef)]
    /\ nextRef' = IF props.customColors = Undefined THEN nextRef + 1 ELSE nextRef
    /\ updates' = NoUpdates
    /\ pendingEffects' =
         EffectsToRunEarlier(mounted,
             [sourceColor |-> sourceColor, customColors |-> rendered.customColors,
              materialTheme |-> materialTheme, isDark |-> rendered.isDark],
             [sourceColor |-> sourceColor', customColors |-> rendered'.customColors,
              materialTheme |-> materialTheme', isDark |-> props.isDark])
    /\ UNCHANGED <<props, style, consoleErrors, uncaught, inputs, lastBuilt, policy,
                   mounted>>
    /\ UNCHANGED pureVars

\* The body of the generation effect of an earlier module:
\*   try { argbColor = argbFromHex(sourceColor);
\*         customColorsArgb = customColors.map((color) =>
\*             ({ ...color, value: argbFromHex(color.value) }));
\*         theme = createMaterialTheme(argbColor, Variant.FIDELITY, 0.0, customColorsArgb);
\*         setMaterialTheme(theme) }
\*   catch (error) { console.error(...) }
GenerateThemeEarlier(color, customColors) ==
    LET argbColor == argbFromHex(color)
        converted == [i \in 1..Len(customColors) |-> argbFromHex(customColors[i].value)]
        failed == \/ argbColor.threw # ""
                  \/ \E i \in 1..Len(customColors) : converted[i].threw # ""
        customColorsArgb ==
            [i \in 1..Len(customColors) |->
                [customColors[i] EXCEPT !.value = converted[i].value]]
        theme == createMaterialTheme(argbColor.value, Given(FIDELITY), Given(0),
                                     Given(customColorsArgb))
    IN  IF ~failed /\ theme.threw = ""
        THEN [setMaterialTheme |-> <<theme.value>>, logged |-> FALSE, escaped |-> FALSE]
        ELSE [setMaterialTheme |-> <<>>, logged |-> TRUE, escaped |-> FALSE]

\* The generation effect of an earlier module runs, with the sourceColor and the
\* customColors array of its render.
EffectGenerateThemeEarlier ==
    /\ mounted \in EarlierModules
    /\ pendingEffects # <<>>
    /\ Head(pendingEffects) = "generate"
    /\ nextRef <= MaxObjects
    /\ pendingEffects' = Tail(pendingEffects)
    /\ LET done == GenerateThemeEarlier(sourceColor, rendered.customColors.val)
           set == done.setMaterialTheme
           theme == IF set = <<>> THEN NULL ELSE Object(nextRef, set[1])
       IN  /\ updates' = [updates EXCEPT
                            !.materialTheme =
                                IF set = <<>> THEN @
                                ELSE SetState(materialTheme, @, theme)]
           /\ nextRef' = IF theme = NULL THEN nextRef ELSE nextRef + 1
           /\ lastBuilt' = IF theme = NULL THEN lastBuilt ELSE theme
           /\ consoleErrors' = IF done.logged THEN consoleErrors + 1 ELSE consoleErrors
    /\ UNCHANGED <<props, rendered, sourceColor, materialTheme, currentScheme, style,
                   uncaught, inputs, policy, mounted>>
    /\ UNCHANGED pureVars

\* The effect of the three-effects module that sets the current scheme:
\* if (!materialTheme) return; setCurrentScheme(scheme).
EffectCurrentScheme ==
    /\ mounted \in EarlierModules
    /\ pendingEffects # <<>>
    /\ Head(pendingEffects) = "scheme"
    /\ pendingEffects' = Tail(pendingEffects)
    /\ updates' = IF materialTheme = NULL THEN updates
                  ELSE [updates EXCEPT
                          !.currentScheme =
                              SetState(currentScheme, @,
                                       SchemeObject(materialTheme, rendered.isDark))]
    /\ UNCHANGED <<props, rendered, sourceColor, materialTheme, currentScheme, style,
                   consoleErrors, uncaught, nextRef, inputs, lastBuilt, policy, mounted>>
    /\ UNCHANGED pureVars

\* The token effect reading the theme of the latest setMaterialTheme call instead
\* of the theme of its render.
EffectInjectTokensLatestTheme ==
    /\ mounted \in EarlierModules
    /\ pendingEffects # <<>>
    /\ Head(pendingEffects) = "tokens"
    /\ pendingEffects' = Tail(pendingEffects)
    /\ LET theme == StateInRender(materialTheme, updates.materialTheme)
       IN  style' = IF theme = NULL THEN style
                    ELSE SetProperties(style, getThemeTokens(policy, theme.val,
                                                             rendered.isDark))
    /\ UNCHANGED <<props, rendered, sourceColor, materialTheme, currentScheme, updates,
                   consoleErrors, uncaught, nextRef, inputs, lastBuilt, policy, mounted>>
    /\ UNCHANGED pureVars

\* The effect of an earlier module that injects the CSS variables:
\* if (!materialTheme) return; apply the tokens to the document root.
EffectInjectTokens ==
    /\ mounted \in EarlierModules
    /\ pendingEffects # <<>>
    /\ Head(pendingEffects) = "tokens"
    /\ pendingEffects' = Tail(pendingEffects)
    /\ style' = IF materialTheme = NULL THEN style
                ELSE SetProperties(style, getThemeTokens(policy, materialTheme.val,
                                                         rendered.isDark))
    /\ UNCHANGED <<props, rendered, sourceColor, materialTheme, currentScheme, updates,
                   consoleErrors, uncaught, nextRef, inputs, lastBuilt, policy, mounted>>
    /\ UNCHANGED pureVars

\* Any of the three provider modules, mounted.
InitModules == Init \/ InitEarlier

NextModules ==
    \/ \E color \in SourceColors : SetSourceColor(color)
    \/ ChangeIsDark
    \/ mounted = "variant-prop" /\ \E variant \in ProviderVariants : ChangeVariant(variant)
    \/ mounted = "variant-prop" /\ Render
    \/ mounted = "variant-prop" /\ EffectGenerateTheme
    \/ mounted = "variant-prop" /\ EffectSchemeTokens
    \/ \E list \in CustomColorProps : PassCustomColors(list)
    \/ RenderEarlier
    \/ EffectGenerateThemeEarlier
    \/ EffectCurrentScheme
    \/ EffectInjectTokens

SpecModules == InitModules /\ [][NextModules]_vars

\* Nothing is scheduled in the mounted module: no effect, no state update, no new
\* props.
QuiescentModule ==
    IF mounted = "variant-prop"
    THEN Quiescent
    ELSE /\ pendingEffects = <<>>
         /\ updates = NoUpdates
         /\ props.isDark = rendered.isDark
         /\ props.customColors = rendered.passed

-----------------------------------------------------------------------------
(* Properties *)

\* The canonical token names.
CanonicalTokenNames ==
    {
     "background", "error", "error-container", "inverse-on-surface",
     "inverse-primary", "inverse-surface", "on-background", "on-error",
     "on-error-container", "on-primary", "on-primary-container", "on-primary-fixed",
     "on-primary-fixed-variant", "on-secondary", "on-secondary-container", "on-secondary-fixed",
     "on-secondary-fixed-variant", "on-surface", "on-surface-variant", "on-tertiary",
     "on-tertiary-container", "on-tertiary-fixed", "on-tertiary-fixed-variant", "outline",
     "outline-variant", "primary", "primary-container", "primary-fixed",
     "primary-fixed-dim", "scrim", "secondary", "secondary-container",
     "secondary-fixed", "secondary-fixed-dim", "shadow", "surface",
     "surface-bright", "surface-container", "surface-container-high", "surface-container-highest",
     "surface-container-low", "surface-container-lowest", "surface-dim", "surface-tint",
     "surface-variant", "tertiary", "tertiary-container", "tertiary-fixed",
     "tertiary-fixed-dim"
    }

\* The CSS custom property that carries a token.
CssVar(name) == "--md-sys-color-" \o name
TokenProperties == {CssVar(name) : name \in CanonicalTokenNames}

\* '#' and six hex digits
IsHexColor(value) ==
    /\ Len(value) = 7
    /\ value[1] = HashChar
    /\ \A i \in 2..7 : value[i] \in HexDigits

\* The number is an RGB integer, in [0, 0xFFFFFF].
InRgbRange(n) == n.hi = 0

\* The arguments of the createMaterialTheme call, defaults applied.
ArgVariant == Default(argv.variant, TONAL_SPOT)
ArgContrastLevel == Default(argv.contrastLevel, 0)
ArgCustomColors == Default(argv.customColors, <<>>)

\* createMaterialTheme has returned a theme.
Built == built # NotCalled /\ built.threw = ""

\* C1: for every variant and both modes, the key set of the map getThemeTokens
\* returns, role-direct or tone-direct, is exactly the canonical token names, each
\* as the custom property --md-sys-color-<name>, and every key has a colour value.
C1_TokenKeysAreCanonical ==
    projected # NotCalled =>
        /\ MapKeys(projected.tokens) = TokenProperties
        /\ \A i \in 1..Len(projected.tokens) : IsHexColor(projected.tokens[i][2])

C1_Witness ==
    /\ projected # NotCalled
    /\ projected.policy = "tone-direct"
    /\ projected.isDark
    /\ built.value.variant = FRUIT_SALAD

\* C2: getThemeTokens(theme, true) is a full dark token set: every key of the
\* result has the value the dark table assigns to it, read off the dark scheme,
\* the result has no other key, and where the light table assigns another value
\* that value is not in the result.
C2_DarkIsFullTokenSet ==
    (projected # NotCalled /\ projected.isDark) =>
        LET tokens == projected.tokens
            light == built.value.schemes.light
            dark == built.value.schemes.dark
            DarkValue(i) ==
                hexFromArgb(ToneArgb(dark, DarkToneTable[i][2], DarkToneTable[i][3]))
            LightValue(i) ==
                hexFromArgb(ToneArgb(dark, LightToneTable[i][2], LightToneTable[i][3]))
        IN  IF projected.policy = "tone-direct"
            THEN /\ Len(tokens) = Len(DarkToneTable)
                 /\ MapKeys(tokens) = {DarkToneTable[i][1] : i \in 1..Len(DarkToneTable)}
                 /\ \A i \in 1..Len(DarkToneTable) :
                        MapGet(tokens, DarkToneTable[i][1]) = DarkValue(i)
                 /\ \A i \in 1..Len(LightToneTable) :
                        /\ MapHas(tokens, LightToneTable[i][1])
                        /\ \/ \E j \in 1..Len(DarkToneTable) :
                                 /\ DarkToneTable[j][1] = LightToneTable[i][1]
                                 /\ DarkValue(j) = LightValue(i)
                           \/ MapGet(tokens, LightToneTable[i][1]) # LightValue(i)
            ELSE /\ Len(tokens) = Len(RoleTable)
                 /\ \A i \in 1..Len(RoleTable) :
                        /\ MapGet(tokens, RoleTable[i][1])
                             = hexFromArgb(RoleArgb(dark, RoleTable[i][2]))
                        /\ MapGet(tokens, RoleTable[i][1])
                             # hexFromArgb(RoleArgb(light, RoleTable[i][2]))

C2_Witness ==
    /\ projected # NotCalled
    /\ projected.policy = "tone-direct"
    /\ projected.isDark
    /\ Len(projected.tokens) = Len(LightToneTable)

\* C4: the theme createMaterialTheme returns has the source argument as its source
\* and the variant argument as its variant; with variant omitted the variant is
\* TONAL_SPOT, with customColors omitted the theme's customColors is empty.
C4_ThemeCarriesArguments ==
    built # NotCalled =>
        /\ built.threw = ""
        /\ built.value.source = argv.source
        /\ argv.variant # Omitted => built.value.variant = argv.variant[1]
        /\ argv.variant = Omitted => built.value.variant = TONAL_SPOT
        /\ argv.customColors = Omitted => built.value.customColors = <<>>

C4_Witness ==
    /\ Built
    /\ argv.variant = Omitted
    /\ argv.customColors = Omitted
    /\ argv.source = Number(255, \h006494)

\* C5: the theme has one CustomColorGroup per entry of the customColors argument,
\* in the same order, the i-th group carrying the i-th definition and its name and
\* derived against the theme's own source colour.
C5_OneGroupPerCustomColor ==
    Built =>
        LET groups == built.value.customColors
        IN  /\ Len(groups) = Len(ArgCustomColors)
            /\ \A i \in 1..Len(ArgCustomColors) :
                   /\ groups[i].color = ArgCustomColors[i]
                   /\ groups[i].color.name = ArgCustomColors[i].name
                   /\ groups[i] = customColor(built.value.source, ArgCustomColors[i])
                   /\ groups[i].value =
                        IF ArgCustomColors[i].blend
                        THEN BlendHarmonize(ArgCustomColors[i].value, built.value.source)
                        ELSE ArgCustomColors[i].value

C5_Witness ==
    /\ Built
    /\ Len(ArgCustomColors) = 2
    /\ ArgCustomColors[1].name = "brand"
    /\ ArgCustomColors[2].name = "custom-1"
    /\ built.value.customColors[1].color.name = "brand"
    /\ built.value.customColors[2].color.name = "custom-1"

C7_UnrecognizedVariantIsTonalSpot ==
    (built # NotCalled /\ ArgVariant \notin Variant) =>
        /\ built.threw = ""
        /\ built.value.schemes.light =
             NewScheme("SchemeTonalSpot", HctFromInt(argv.source), FALSE, ArgContrastLevel)
        /\ built.value.schemes.dark =
             NewScheme("SchemeTonalSpot", HctFromInt(argv.source), TRUE, ArgContrastLevel)

C7_Witness ==
    /\ Built
    /\ argv.variant = Given(42)
    /\ built.value.variant = 42
    /\ built.value.schemes.dark.strategy = "SchemeTonalSpot"

\* The palette-engine strategy named after a variant.
StrategyNamed(variant) == Strategies[variant + 1]

\* C8: for each of the nine variants both schemes of the theme are built with the
\* variant's own strategy, the light one with isDark = false and the dark one with
\* isDark = true, from the same source colour and the contrastLevel as given; no
\* other variant selects that strategy.
C8_VariantDispatchOneToOne ==
    (Built /\ ArgVariant \in Variant) =>
        LET schemes == built.value.schemes
            initial == SchemePair("SchemeTonalSpot", argv.source, ArgContrastLevel)
        IN  /\ schemes.light = NewScheme(StrategyNamed(ArgVariant), HctFromInt(argv.source),
                                         FALSE, ArgContrastLevel)
            /\ schemes.dark = NewScheme(StrategyNamed(ArgVariant), HctFromInt(argv.source),
                                        TRUE, ArgContrastLevel)
            /\ \A other \in Variant \ {ArgVariant} :
                   LET others == SwitchVariant(other, argv.source, ArgContrastLevel, initial)
                   IN  /\ others.light.strategy # schemes.light.strategy
                       /\ others.dark.strategy # schemes.dark.strategy

C8_Witness ==
    /\ Built
    /\ argv.variant = Given(CONTENT)
    /\ argv.contrastLevel = Given(5)
    /\ built.value.schemes.light.strategy = "SchemeContent"
    /\ built.value.schemes.dark.contrastLevel = 5

\* The token properties on the document root, in order.
IsTokenProperty(entry) == entry[1] \in TokenProperties
RootTokens == SelectSeq(style, IsTokenProperty)

\* The colour the sourceColor hook holds once the enqueued update is rendered.
RequestedColor == StateInRender(sourceColor, updates.sourceColor)

Convertible(color) == argbFromHex(color).threw = ""
ConvertibleColors == {color \in SourceColors \cup DefaultSourceColors : Convertible(color)}

\* The provider is quiescent, holds a theme of the colour, and the root carries
\* exactly the tokens of that theme in the current mode.
ThemeSettledFor(color) ==
    /\ Quiescent
    /\ materialTheme # NULL
    /\ materialTheme.val.source = argbFromHex(color).value
    /\ RootTokens = getThemeTokens(policy, materialTheme.val, props.isDark)

\* C9: after setSourceColor(c) with a valid hex colour c, unless another colour is
\* set meanwhile, the provider eventually is quiescent holding a theme whose source
\* is the ARGB value of c, with the tokens on the document root exactly
\* getThemeTokens(that theme, isDark): no token of the old theme remains.
C9_SourceColorChangeRepublishes ==
    \A color \in ConvertibleColors :
        (RequestedColor = color) ~> (RequestedColor # color \/ ThemeSettledFor(color))

C9_Witness ==
    /\ ThemeSettledFor(ColorFF0000)
    /\ sourceColor = ColorFF0000
    /\ materialTheme.ref > 1
    /\ inputs = 1

\* The generation effect runs on a colour argbFromHex rejects.
FailedBuildStep ==
    /\ pendingEffects # <<>>
    /\ Head(pendingEffects) = "generate"
    /\ ~Convertible(sourceColor)
    /\ pendingEffects' = Tail(pendingEffects)

\* The provider holds the last theme built, its scheme for the mode, and that
\* theme's tokens; or nothing if no theme was ever built.
HoldsLastBuilt ==
    /\ materialTheme = lastBuilt
    /\ IF lastBuilt = NULL
       THEN currentScheme = NULL /\ RootTokens = <<>>
       ELSE /\ currentScheme = SchemeObject(lastBuilt, props.isDark)
            /\ RootTokens = getThemeTokens(policy, lastBuilt.val, props.isDark)

\* C10: when the theme build fails on an unconvertible colour, the error is caught
\* and reported with console.error, nothing escapes the provider, and the failing
\* step changes neither the held theme, nor the current scheme, nor the published
\* tokens, nor enqueues an update of them; once quiescent the provider holds the
\* last theme built, its scheme and its tokens, or null and no token if none was.
C10_FailedBuildKeepsLastGood ==
    /\ [][FailedBuildStep =>
            /\ materialTheme' = materialTheme
            /\ currentScheme' = currentScheme
            /\ style' = style
            /\ updates'.materialTheme = updates.materialTheme
            /\ updates'.currentScheme = updates.currentScheme
            /\ lastBuilt' = lastBuilt
            /\ consoleErrors' = consoleErrors + 1
            /\ uncaught' = FALSE]_vars
    /\ []((Quiescent /\ ~Convertible(sourceColor)) =>
            /\ HoldsLastBuilt
            /\ consoleErrors >= 1
            /\ ~uncaught)

C10_Witness ==
    /\ Quiescent
    /\ ~Convertible(sourceColor)
    /\ consoleErrors >= 1
    /\ lastBuilt # NULL
    /\ materialTheme = lastBuilt
    /\ RootTokens # <<>>

\* The render of a changed isDark alone: the colour and the variant are those of
\* the last render.
RenderOfIsDarkChange ==
    /\ Render
    /\ props.isDark # rendered.isDark
    /\ props.variant = rendered.variant
    /\ sourceColor' = sourceColor
    /\ materialTheme' = materialTheme

\* The effects of a render in the mode have run and the root carries exactly the
\* tokens of the held theme in the mode.
TokensPublishedFor(isDark) ==
    /\ pendingEffects = <<>>
    /\ rendered.isDark = isDark
    /\ materialTheme # NULL
    /\ RootTokens = getThemeTokens(policy, materialTheme.val, isDark)

\* C11: when isDark changes while a theme is held, then, unless isDark changes
\* again, the tokens on the document root eventually are getThemeTokens(held
\* theme, new isDark), key for key; and the render of a changed isDark alone
\* schedules the scheme and token effect and not the theme generation effect, so
\* that no theme is built.
C11_IsDarkChangeRepublishes ==
    /\ \A isDark \in BOOLEAN :
           (materialTheme # NULL /\ props.isDark = isDark)
               ~> (props.isDark # isDark \/ TokensPublishedFor(isDark))
    /\ [][RenderOfIsDarkChange =>
              pendingEffects' = <<"scheme">>]_vars
    /\ [][(pendingEffects # <<>> /\ Head(pendingEffects) = "scheme") =>
              (nextRef' = nextRef /\ lastBuilt' = lastBuilt
               /\ updates'.materialTheme = updates.materialTheme)]_vars

\* The scheme and token effect has run after a change of isDark alone: the tokens
\* are those of the new mode while the scheme of the last render is still that of
\* the old mode, and the theme is the first one built.
C11_Witness ==
    /\ pendingEffects = <<>>
    /\ materialTheme # NULL
    /\ materialTheme.ref = 1
    /\ nextRef = 2
    /\ rendered.isDark
    /\ currentScheme = SchemeObject(materialTheme, FALSE)
    /\ updates.currentScheme = <<SchemeObject(materialTheme, TRUE)>>
    /\ updates.materialTheme = <<>>
    /\ TokensPublishedFor(TRUE)

\* C12: in every state the context value consumers hold (the materialTheme and
\* currentScheme of the last render) and the document root are consistent: if a
\* theme is held, currentScheme is that theme's scheme for the mode of the render
\* and the root carries exactly that theme's tokens for that mode.
C12_ConsistentTriple ==
    materialTheme # NULL =>
        /\ currentScheme = SchemeObject(materialTheme, rendered.isDark)
        /\ RootTokens = getThemeTokens(policy, materialTheme.val, rendered.isDark)

\* C13: useMaterialTheme throws "useMaterialTheme must be used within a
\* MaterialThemeProvider" when called with no provider above, and returns the
\* provider's context value when called under one, in every provider module.
C13_HookThrowsOutsideProvider ==
    hook # NotCalled =>
        IF hook.underProvider
        THEN hook.completion = Return(ProviderValue)
        ELSE hook.completion = Throw(HookError)

\* C14: once the provider is quiescent holding the theme of its source colour, the
\* theme has one custom colour group per entry of the customColors prop, in order
\* and by name.
C14_ThemeReflectsCustomColors ==
    (Quiescent /\ materialTheme # NULL /\ Convertible(sourceColor)) =>
        LET groups == materialTheme.val.customColors
        IN  /\ Len(groups) = Len(props.customColors)
            /\ \A i \in 1..Len(props.customColors) :
                   groups[i].color.name = props.customColors[i].name

\* The keys of the map are pairwise distinct.
OneValuePerKey(m) == \A i, j \in 1..Len(m) : m[i][1] = m[j][1] => i = j

\* C15, as claimed: the map getThemeTokens returns has one value per canonical
\* token name and exactly 48 entries, in both modes and both versions.
C15_Exactly48Entries ==
    projected # NotCalled =>
        /\ OneValuePerKey(projected.tokens)
        /\ MapKeys(projected.tokens) = TokenProperties
        /\ Len(projected.tokens) = 48

\* C15, amended: the map getThemeTokens returns has one value per canonical token
\* name and exactly 49 entries, in both modes and both versions; the canonical
\* names are 49.
C15_Exactly49Entries ==
    projected # NotCalled =>
        /\ OneValuePerKey(projected.tokens)
        /\ MapKeys(projected.tokens) = TokenProperties
        /\ Len(projected.tokens) = 49
        /\ Cardinality(CanonicalTokenNames) = 49

C15_Witness ==
    /\ projected # NotCalled
    /\ projected.policy = "role-direct"
    /\ ~projected.isDark
    /\ Len(projected.tokens) = 49
    /\ built.value.variant = MONOCHROME

\* The theme is, whole, what one createMaterialTheme call of the provider returns:
\* createMaterialTheme(argbFromHex(color), variant, 0.0) for a colour string and a
\* variant prop.
IsOneBuild(theme) ==
    \E color \in DefaultSourceColors \cup SourceColors, variant \in ProviderVariants :
        /\ Convertible(color)
        /\ theme = createMaterialTheme(argbFromHex(color).value, Given(variant),
                                       Given(0), Omitted).value

\* C16: once materialTheme is not null it never is null again, whatever colours are
\* set and props changed; and every theme held, or enqueued to be held, is the
\* complete result of one createMaterialTheme call, its source, variant and both
\* schemes from the same build.
C16_ReadyStaysReadyAndWhole ==
    /\ [][materialTheme # NULL => materialTheme' # NULL]_vars
    /\ [](materialTheme # NULL => IsOneBuild(materialTheme.val))
    /\ [](\A i \in 1..Len(updates.materialTheme) :
              /\ updates.materialTheme[i] # NULL
              /\ IsOneBuild(updates.materialTheme[i].val))

\* A second theme is held, of the VIBRANT variant, after a colour was set that
\* argbFromHex rejects.
C16_Witness ==
    /\ Quiescent
    /\ materialTheme # NULL
    /\ materialTheme.ref = 2
    /\ materialTheme.val.variant = VIBRANT
    /\ ~Convertible(sourceColor)
    /\ consoleErrors = 1

ToneStop(table, name) ==
    LET i == CHOOSE i \in 1..Len(table) : table[i][1] = CssVar(name)
    IN  <<table[i][2], table[i][3]>>

\* The tokens named after a fixed role of the primary, secondary or tertiary
\* palette, and scrim and shadow.
ModeIndependentNames ==
    UNION {{p \o "-fixed", p \o "-fixed-dim", "on-" \o p \o "-fixed",
            "on-" \o p \o "-fixed-variant"} : p \in {"primary", "secondary", "tertiary"}}
    \cup {"scrim", "shadow"}

\* C18: in the tone-direct getThemeTokens every token has the value of the tone
\* stop its mode's table assigns to its name, read off the palette of the scheme
\* of that mode; primary reads tone 40 of the primary palette in light mode and
\* tone 80 in dark mode; the fixed tokens, scrim and shadow read the same palette
\* and tone in both modes; surface-tint reads what primary reads and background
\* what surface reads, in each mode.
C18_ToneStopsByNameAndMode ==
    (projected # NotCalled /\ projected.policy = "tone-direct") =>
        LET tokens == projected.tokens
            isDark == projected.isDark
            scheme == IF isDark THEN built.value.schemes.dark
                      ELSE built.value.schemes.light
            table == IF isDark THEN DarkToneTable ELSE LightToneTable
            Read(stop) == hexFromArgb(ToneArgb(scheme, stop[1], stop[2]))
        IN  /\ \A name \in CanonicalTokenNames :
                   MapGet(tokens, CssVar(name)) = Read(ToneStop(table, name))
            /\ MapGet(tokens, CssVar("primary"))
                 = Read(<<"primary", IF isDark THEN 80 ELSE 40>>)
            /\ ToneStop(LightToneTable, "primary") = <<"primary", 40>>
            /\ ToneStop(DarkToneTable, "primary") = <<"primary", 80>>
            /\ \A name \in ModeIndependentNames :
                   /\ name \in CanonicalTokenNames
                   /\ ToneStop(LightToneTable, name) = ToneStop(DarkToneTable, name)
            /\ ToneStop(table, "surface-tint") = ToneStop(table, "primary")
            /\ ToneStop(table, "background") = ToneStop(table, "surface")
            /\ MapGet(tokens, CssVar("surface-tint")) = MapGet(tokens, CssVar("primary"))
            /\ MapGet(tokens, CssVar("background")) = MapGet(tokens, CssVar("surface"))

C18_Witness ==
    /\ projected # NotCalled
    /\ projected.policy = "tone-direct"
    /\ projected.isDark
    /\ built.value.variant = EXPRESSIVE
    /\ MapGet(projected.tokens, CssVar("primary"))
         = hexFromArgb(ToneArgb(built.value.schemes.dark, "primary", 80))
    /\ MapGet(projected.tokens, CssVar("primary"))
         # hexFromArgb(ToneArgb(built.value.schemes.dark, "primary", 40))

\* The words of the canonical token names, each name as the sequence of its words.
TokenNameWords ==
    {
     <<"background">>, <<"error">>, <<"error", "container">>,
     <<"inverse", "on", "surface">>, <<"inverse", "primary">>,
     <<"inverse", "surface">>, <<"on", "background">>, <<"on", "error">>,
     <<"on", "error", "container">>, <<"on", "primary">>,
     <<"on", "primary", "container">>, <<"on", "primary", "fixed">>,
     <<"on", "primary", "fixed", "variant">>, <<"on", "secondary">>,
     <<"on", "secondary", "container">>, <<"on", "secondary", "fixed">>,
     <<"on", "secondary", "fixed", "variant">>, <<"on", "surface">>,
     <<"on", "surface", "variant">>, <<"on", "tertiary">>,
     <<"on", "tertiary", "container">>, <<"on", "tertiary", "fixed">>,
     <<"on", "tertiary", "fixed", "variant">>, <<"outline">>,
     <<"outline", "variant">>, <<"primary">>, <<"primary", "container">>,
     <<"primary", "fixed">>, <<"primary", "fixed", "dim">>, <<"scrim">>,
     <<"secondary">>, <<"secondary", "container">>, <<"secondary", "fixed">>,
     <<"secondary", "fixed", "dim">>, <<"shadow">>, <<"surface">>,
     <<"surface", "bright">>, <<"surface", "container">>,
     <<"surface", "container", "high">>, <<"surface", "container", "highest">>,
     <<"surface", "container", "low">>, <<"surface", "container", "lowest">>,
     <<"surface", "dim">>, <<"surface", "tint">>, <<"surface", "variant">>,
     <<"tertiary">>, <<"tertiary", "container">>, <<"tertiary", "fixed">>,
     <<"tertiary", "fixed", "dim">>
    }

\* A word with its first letter in upper case.
Capitalized ==
    [
     background |-> "Background", bright |-> "Bright", container |-> "Container",
     dim |-> "Dim", error |-> "Error", fixed |-> "Fixed", high |-> "High",
     highest |-> "Highest", inverse |-> "Inverse", low |-> "Low",
     lowest |-> "Lowest", on |-> "On", outline |-> "Outline", primary |-> "Primary",
     scrim |-> "Scrim", secondary |-> "Secondary", shadow |-> "Shadow",
     surface |-> "Surface", tertiary |-> "Tertiary", tint |-> "Tint",
     variant |-> "Variant"
    ]

\* A name's words joined with '-', and joined with every word but the first
\* capitalized.
RECURSIVE Kebab(_)
Kebab(words) ==
    IF Len(words) = 1 THEN words[1]
    ELSE Kebab(SubSeq(words, 1, Len(words) - 1)) \o "-" \o words[Len(words)]

RECURSIVE CamelCase(_)
CamelCase(words) ==
    IF Len(words) = 1 THEN words[1]
    ELSE CamelCase(SubSeq(words, 1, Len(words) - 1)) \o Capitalized[words[Len(words)]]

\* The canonical names spelled from their words, and each token property paired
\* with the camelCase form of its name.
KebabNames == {Kebab(words) : words \in TokenNameWords}
CamelCasePairs == {<<CssVar(Kebab(words)), CamelCase(words)>> : words \in TokenNameWords}

\* C19: in the role-direct getThemeTokens the token '--md-sys-color-<kebab-name>'
\* is paired with, and has the value of, the scheme role named by the camelCase
\* form of <kebab-name>, for every canonical name; no two tokens are paired with
\* the same role; and the value is read off the dark scheme when isDark is true
\* and off the light scheme otherwise, not off the other one.
C19_RoleTableIsCamelCaseBijection ==
    (projected # NotCalled /\ projected.policy = "role-direct") =>
        LET tokens == projected.tokens
            scheme == IF projected.isDark THEN built.value.schemes.dark
                      ELSE built.value.schemes.light
            other == IF projected.isDark THEN built.value.schemes.light
                     ELSE built.value.schemes.dark
        IN  /\ KebabNames = CanonicalTokenNames
            /\ {RoleTable[i] : i \in 1..Len(RoleTable)} = CamelCasePairs
            /\ \A pair \in CamelCasePairs :
                   /\ MapGet(tokens, pair[1]) = hexFromArgb(RoleArgb(scheme, pair[2]))
                   /\ MapGet(tokens, pair[1]) # hexFromArgb(RoleArgb(other, pair[2]))
            /\ \A i, j \in 1..Len(RoleTable) :
                   RoleTable[i][2] = RoleTable[j][2] => i = j

C19_Witness ==
    /\ projected # NotCalled
    /\ projected.policy = "role-direct"
    /\ projected.isDark
    /\ built.value.variant = RAINBOW
    /\ MapGet(projected.tokens, CssVar("on-primary-fixed-variant"))
         = hexFromArgb(RoleArgb(built.value.schemes.dark, "onPrimaryFixedVariant"))

\* C20: of several setSourceColor calls made before the provider renders again,
\* the last one decides: each call replaces the colour requested, a render takes
\* the colour requested last, the generation effect builds a theme of the colour
\* of its render and of no other, every publish writes the tokens of the theme
\* held, and once quiescent on a convertible colour the provider holds that
\* colour's theme and has published its tokens.  No theme of a colour that was
\* replaced before a render is built, held or published.
C20_OnlyLastColorBuilt ==
    /\ [][\A color \in SourceColors :
              SetSourceColor(color) => RequestedColor' = color]_vars
    /\ [][sourceColor' # sourceColor => sourceColor' = RequestedColor]_vars
    /\ [][lastBuilt' # lastBuilt =>
              /\ Convertible(sourceColor)
              /\ lastBuilt'.val.source = argbFromHex(sourceColor).value
              /\ updates'.materialTheme = <<lastBuilt'>>]_vars
    /\ [][style' # style =>
              /\ materialTheme # NULL
              /\ RootTokens' = getThemeTokens(policy, materialTheme.val, rendered.isDark)]_vars
    /\ []((Quiescent /\ Convertible(sourceColor)) => ThemeSettledFor(sourceColor))

\* Two setSourceColor calls have been made since the mount, before its effects and
\* before any other render, the last one with '#ff0000'.
C20_Witness ==
    /\ pendingEffects = <<"generate", "scheme">>
    /\ materialTheme = NULL
    /\ nextRef = 1
    /\ consoleErrors = 0
    /\ inputs = 2
    /\ props = rendered
    /\ sourceColor = Color006494
    /\ updates.sourceColor = <<ColorFF0000>>

\* A measure of the work the provider still has to do with no further input: a
\* pending colour or variant change costs a render, a generation effect and what
\* the theme it sets costs; a pending theme or isDark change costs a render, a
\* scheme and token effect and the render of the scheme it sets.
Truth(b) == IF b THEN 1 ELSE 0

PendingEffect(name) == \E i \in 1..Len(pendingEffects) : pendingEffects[i] = name

PendingWork ==
    5 * Truth(updates.sourceColor # <<>> \/ props.variant # rendered.variant)
    + 3 * Truth(props.isDark # rendered.isDark)
    + 3 * Truth(updates.materialTheme # <<>>)
    + Truth(updates.currentScheme # <<>>)
    + 4 * Truth(PendingEffect("generate"))
    + 2 * Truth(PendingEffect("scheme"))

\* C21: the provider always reaches quiescence.  Every step that is no external
\* input (a render or an effect) strictly lowers PendingWork, which is 6 at mount
\* and at most 5 after a single change to a quiescent provider, so the effects
\* and renders that follow are at most that many; PendingWork is 0 exactly when
\* quiescent; from a quiescent state only an external input is a step (no state
\* update, no publish); and with React running what it scheduled, quiescence is
\* reached again and again.
C21_ReachesQuiescence ==
    /\ [][inputs' = inputs => PendingWork' < PendingWork]_vars
    /\ [](Quiescent <=> PendingWork = 0)
    /\ [](inputs = 0 => PendingWork <= 6)
    /\ [][(Quiescent /\ inputs' # inputs) => PendingWork' <= 5]_vars
    /\ [][Quiescent => (inputs' # inputs /\ style' = style /\ updates'.materialTheme = <<>>
                        /\ updates'.currentScheme = <<>> /\ pendingEffects' = <<>>)]_vars
    /\ []<>Quiescent

\* Quiescent again after one change that made the provider rebuild its theme.
C21_Witness ==
    /\ Quiescent
    /\ inputs = 1
    /\ materialTheme # NULL
    /\ materialTheme.ref = 2
    /\ currentScheme = SchemeObject(materialTheme, rendered.isDark)

\* C22: an earlier provider module that is given no input builds its theme at
\* most once after mount, also when the customColors prop is omitted.
C22_BuiltOnceWithoutInput ==
    (mounted \in EarlierModules /\ inputs = 0 /\ lastBuilt # NULL) =>
        lastBuilt.ref = 2

\* C23: nothing is published before a theme exists.  In every state of every
\* provider module in which materialTheme is null, also after a failed first
\* build, the document root carries no token property and is as the provider
\* found it, currentScheme is null, and no currentScheme update is enqueued.
C23_NothingPublishedBeforeTheme ==
    materialTheme = NULL =>
        /\ RootTokens = <<>>
        /\ style = InitialStyle
        /\ currentScheme = NULL
        /\ updates.currentScheme = <<>>

\* The first build failed, and a later isDark change has been rendered and its
\* effects have run, in the module that derives the scheme during render.
C23_Witness ==
    /\ mounted = "derived-scheme"
    /\ materialTheme = NULL
    /\ consoleErrors >= 1
    /\ rendered.isDark
    /\ pendingEffects = <<>>
    /\ updates = NoUpdates

\* The scheme and token effect runs with a theme held: a publish.
PublishStep ==
    /\ pendingEffects # <<>>
    /\ Head(pendingEffects) = "scheme"
    /\ materialTheme # NULL
    /\ pendingEffects' = Tail(pendingEffects)

\* The token maps of the themes the provider can build, in both modes and with
\* either getThemeTokens.
PublishableTokenMaps ==
    {getThemeTokens(which, GenerateTheme(color, variant).setMaterialTheme[1], isDark) :
        which \in Policies, color \in ConvertibleColors, variant \in ProviderVariants,
        isDark \in BOOLEAN}

\* C24: each publish writes every key of one getThemeTokens result and only those
\* keys.  After a publish each token property has the value that result gives it,
\* the token properties on the root are exactly that result, no property has been
\* removed, the properties of the root are those it had and the token keys, and
\* every property that is no token keeps its value.  The root changes in no other
\* step, so its token properties are at all times none or those of one (theme,
\* mode) pair, never a mix of two publishes.
C24_PublishWritesExactlyTheTokenMap ==
    /\ [][PublishStep =>
            LET tokens == getThemeTokens(policy, materialTheme.val, rendered.isDark)
            IN  /\ MapKeys(tokens) = TokenProperties
                /\ \A key \in TokenProperties : MapGet(style', key) = MapGet(tokens, key)
                /\ RootTokens' = tokens
                /\ MapKeys(style') = MapKeys(style) \cup TokenProperties
                /\ Len(style') = Cardinality(MapKeys(style'))
                /\ \A key \in MapKeys(style) \ TokenProperties :
                       MapGet(style', key) = MapGet(style, key)]_vars
    /\ [][style' # style => PublishStep]_vars
    /\ [](RootTokens = <<>> \/ RootTokens \in PublishableTokenMaps)

\* A second publish has replaced the tokens of the first theme by those of a
\* rebuilt one, with the root's other property as it was.
C24_Witness ==
    /\ pendingEffects = <<>>
    /\ materialTheme # NULL
    /\ materialTheme.ref = 2
    /\ RootTokens = getThemeTokens(policy, materialTheme.val, rendered.isDark)
    /\ Len(style) = Len(RootTokens) + 1
    /\ MapGet(style, "--app-accent") = <<HashChar, 1, 2, 3>>

\* The light and the dark scheme of a held theme.
SchemesOf(theme) ==
    IF theme = NULL THEN {} ELSE {SchemeObject(theme, isDark) : isDark \in BOOLEAN}

\* C25: currentScheme is null until it is first set, and whenever it changes it
\* becomes the light or dark scheme of the theme held before or after that
\* render, so it is always null or a scheme of a theme the provider holds or has
\* held.  Whenever a module is quiescent with a theme held, currentScheme is that
\* theme's dark scheme if isDark and its light scheme otherwise.  In the module that
\* computes the scheme during render, currentScheme is the scheme of the held
\* theme for the rendered isDark in every state.
C25_CurrentSchemeOfHeldTheme ==
    /\ [][currentScheme' # currentScheme =>
              currentScheme' \in SchemesOf(materialTheme) \cup SchemesOf(materialTheme')]_vars
    /\ [](materialTheme = NULL => currentScheme = NULL)
    /\ []((QuiescentModule /\ materialTheme # NULL) =>
              currentScheme = SchemeObject(materialTheme, props.isDark))
    /\ [](mounted = "derived-scheme" =>
              currentScheme = IF materialTheme = NULL THEN NULL
                              ELSE SchemeObject(materialTheme, rendered.isDark))

\* The module that keeps currentScheme as state, quiescent in dark mode with the
\* dark scheme of its theme.
C25_Witness ==
    /\ mounted = "three-effects"
    /\ QuiescentModule
    /\ materialTheme # NULL
    /\ rendered.isDark
    /\ currentScheme = SchemeObject(materialTheme, TRUE)

=============================================================================
